---- MODULE Spec2Model ----
(***************************************************************************)
(* Sphere neighbour-navigation engine of swi-metobs-backend                *)
(* (src/app/api/v3/endpoints/spheres.py, src/app/models/spheres.py).       *)
(*                                                                         *)
(* Units.  Coordinates are integers in units of 0.0005 degree, distances   *)
(* are integers in millimetres, bearings are integers in 1/10000 degree    *)
(* (floor of the float), max_range is in metres, time is in half hours.    *)
(* The two trigonometric functions are tabulated on the model's            *)
(* coordinates by evaluating the source formulas; the tabulated values     *)
(* order and separate exactly as the floats do for sectors 1..12.          *)
(***************************************************************************)
EXTENDS Integers, Sequences, FiniteSets, Bags, TLC

VARIABLES
    spatial_index,    \* _spatial_index: ordered dict id -> node
    position_grid,    \* _position_grid: ordered dict grid key -> list of ids
    distance_matrix,  \* _distance_matrix: ordered dict id -> ordered dict id -> mm
    bearing_matrix,   \* _bearing_matrix: ordered dict id -> ordered dict id -> 1/10000 deg
    geojson_cache,    \* _geojson_cache: dict url -> document
    cache_timestamp,  \* _cache_timestamp: dict url -> time of the fetch
    project_links,    \* SphereProjectLinks, read from the environment at import
    now,              \* datetime.now(), in half hours
    requests,         \* the handlers in flight, each at its suspension point
    response,         \* the response a handler has just returned
    loads,            \* how many times ensure_data_loaded ran the load pipeline
    call              \* the result of a direct call of find_neighbors

indexVars == <<spatial_index, position_grid, distance_matrix, bearing_matrix>>

fetchVars == <<geojson_cache, cache_timestamp>>

serviceVars == <<geojson_cache, cache_timestamp, project_links, now, requests, response,
                 loads>>

vars == <<spatial_index, position_grid, distance_matrix, bearing_matrix,
          geojson_cache, cache_timestamp, project_links, now, requests, response,
          loads, call>>

(***************************************************************************)
(* Python dicts keep insertion order: a dict is a sequence of <<key,       *)
(* value>> pairs without repeated keys.                                    *)
(***************************************************************************)
DictHas(d, k) == \E i \in 1..Len(d) : d[i][1] = k

DictGet(d, k) == d[CHOOSE i \in 1..Len(d) : d[i][1] = k][2]

DictSet(d, k, v) ==
    IF DictHas(d, k)
    THEN [i \in 1..Len(d) |-> IF d[i][1] = k THEN <<k, v>> ELSE d[i]]
    ELSE Append(d, <<k, v>>)

DictKeys(d) == [i \in 1..Len(d) |-> d[i][1]]

DictKeySet(d) == {d[i][1] : i \in 1..Len(d)}

DictValues(d) == [i \in 1..Len(d) |-> d[i][2]]

Abs(x) == IF x < 0 THEN -x ELSE x

Min(a, b) == IF a <= b THEN a ELSE b

\* Python's round(n / d) for d > 0: to the nearest integer, halves to even.
PyRound(n, d) ==
    LET q == n \div d
        r == n % d
    IN  IF 2 * r < d THEN q
        ELSE IF 2 * r > d THEN q + 1
        ELSE IF q % 2 = 0 THEN q ELSE q + 1

(***************************************************************************)
(* Geometry.  GeoTable lists <<lon1, lat1, lon2, lat2, distance, bearing>> *)
(* as _haversine_distance and _calculate_bearing give them.                *)
(***************************************************************************)
GRID_SIZE == 2

MilliPerMetre == 10 * 100

FullCircle == 360 * 10000

GeoTable ==
    { <<0, 0, 0, 0, 0, 0>>,
      <<0, 0, 0, 2, 111195, 0>>,
      <<0, 0, 0, 4, 222390, 0>>,
      <<0, 0, 2, 0, 111195, 900000>>,
      <<0, 0, 0, -2, 111195, 1800000>>,
      <<0, 0, -1, 5, 283493, 3486900>>,
      <<0, 0, 1, 0, 55597, 900000>>,

      <<0, 2, 0, 0, 111195, 1800000>>,
      <<0, 2, 0, 2, 0, 0>>,
      <<0, 2, 0, 4, 111195, 0>>,
      <<0, 2, 2, 0, 157253, 1349999>>,
      <<0, 2, 0, -2, 222390, 1800000>>,
      <<0, 2, -1, 5, 175815, 3415650>>,
      <<0, 2, 1, 0, 124320, 1534349>>,

      <<0, 4, 0, 0, 222390, 1800000>>,
      <<0, 4, 0, 2, 111195, 1800000>>,
      <<0, 4, 0, 4, 0, 0>>,
      <<0, 4, 2, 0, 248639, 1534349>>,
      <<0, 4, 0, -2, 333585, 1800000>>,
      <<0, 4, -1, 5, 78627, 3150000>>,
      <<0, 4, 1, 0, 229234, 1659637>>,

      <<2, 0, 0, 0, 111195, 2700000>>,
      <<2, 0, 0, 2, 157253, 3150000>>,
      <<2, 0, 0, 4, 248639, 3334349>>,
      <<2, 0, 2, 0, 0, 0>>,
      <<2, 0, 0, -2, 157253, 2249999>>,
      <<2, 0, -1, 5, 324186, 3290362>>,
      <<2, 0, 1, 0, 55597, 2700000>>,

      <<0, -2, 0, 0, 111195, 0>>,
      <<0, -2, 0, 2, 222390, 0>>,
      <<0, -2, 0, 4, 333585, 0>>,
      <<0, -2, 2, 0, 157253, 450000>>,
      <<0, -2, 0, -2, 0, 0>>,
      <<0, -2, -1, 5, 393133, 3518698>>,
      <<0, -2, 1, 0, 124320, 265650>>,

      <<-1, 5, 0, 0, 283493, 1686900>>,
      <<-1, 5, 0, 2, 175815, 1615650>>,
      <<-1, 5, 0, 4, 78627, 1350000>>,
      <<-1, 5, 2, 0, 324186, 1490362>>,
      <<-1, 5, 0, -2, 393133, 1718698>>,
      <<-1, 5, -1, 5, 0, 0>>,
      <<-1, 5, 1, 0, 299402, 1581985>>,

      <<1, 0, 0, 0, 55597, 2700000>>,
      <<1, 0, 0, 2, 124320, 3334349>>,
      <<1, 0, 0, 4, 229234, 3459637>>,
      <<1, 0, 2, 0, 55597, 900000>>,
      <<1, 0, 0, -2, 124320, 2065650>>,
      <<1, 0, -1, 5, 299402, 3381985>>,
      <<1, 0, 1, 0, 0, 0>> }

get_grid_key(lon, lat) ==
    <<PyRound(lon, GRID_SIZE) * GRID_SIZE, PyRound(lat, GRID_SIZE) * GRID_SIZE>>

haversine_distance_directed(lon1, lat1, lon2, lat2) ==
    (CHOOSE e \in GeoTable :
        e[1] = lon1 /\ e[2] = lat1 /\ e[3] = lon2 /\ e[4] = lat2)[5]
    + (IF lon1 < lon2 \/ lat1 < lat2 THEN 1 ELSE 0)

haversine_distance(lon1, lat1, lon2, lat2) ==
    (CHOOSE e \in GeoTable :
        e[1] = lon1 /\ e[2] = lat1 /\ e[3] = lon2 /\ e[4] = lat2)[5]

calculate_bearing(lon1, lat1, lon2, lat2) ==
    (CHOOSE e \in GeoTable :
        e[1] = lon1 /\ e[2] = lat1 /\ e[3] = lon2 /\ e[4] = lat2)[6]

(***************************************************************************)
(* SpatialIndex                                                            *)
(***************************************************************************)
\* SpatialIndex.add_node: what it leaves in _spatial_index.
add_node_index(idx, node) ==
    IF Len(node.gps) >= 2 THEN DictSet(idx, node.id, node) ELSE idx

\* SpatialIndex.add_node: what it leaves in _position_grid (a defaultdict(list)).
add_node_grid(grid, node) ==
    IF Len(node.gps) >= 2
    THEN LET grid_key == get_grid_key(node.gps[1], node.gps[2])
             cell == IF DictHas(grid, grid_key) THEN DictGet(grid, grid_key) ELSE <<>>
         IN  DictSet(grid, grid_key, Append(cell, node.id))
    ELSE grid

matrix_row_without_self(idx, i, kind) ==
    LET node1 == idx[i][2]
        entry(j) ==
            IF i = j THEN <<>>
            ELSE <<idx[j][1],
                   IF kind = "distance"
                   THEN haversine_distance(node1.gps[1], node1.gps[2],
                                           idx[j][2].gps[1], idx[j][2].gps[2])
                   ELSE calculate_bearing(node1.gps[1], node1.gps[2],
                                          idx[j][2].gps[1], idx[j][2].gps[2])>>
    IN  SelectSeq([j \in 1..Len(idx) |-> entry(j)], LAMBDA e : e # <<>>)

\* One row of a matrix of _compute_distance_and_bearing_matrices, for the
\* i-th id of node_ids; kind is "distance" or "bearing".
matrix_row(idx, i, kind) ==
    LET node1 == idx[i][2]
        entry(j) ==
            IF i = j THEN <<idx[j][1], 0>>
            ELSE IF Len(idx[j][2].gps) < 2 THEN <<>>
            ELSE LET node2 == idx[j][2]
                 IN  <<idx[j][1],
                       IF kind = "distance"
                       THEN haversine_distance(node1.gps[1], node1.gps[2],
                                               node2.gps[1], node2.gps[2])
                       ELSE calculate_bearing(node1.gps[1], node1.gps[2],
                                              node2.gps[1], node2.gps[2])>>
    IN  IF Len(node1.gps) < 2 THEN <<>>
        ELSE SelectSeq([j \in 1..Len(idx) |-> entry(j)], LAMBDA e : e # <<>>)

compute_matrix_once(idx, kind) ==
    IF kind = "distance" /\ distance_matrix # <<>> THEN distance_matrix
    ELSE IF kind = "bearing" /\ bearing_matrix # <<>> THEN bearing_matrix
    ELSE [i \in 1..Len(idx) |-> <<idx[i][1], matrix_row(idx, i, kind)>>]

\* SpatialIndex._compute_distance_and_bearing_matrices: the matrix of one kind.
compute_matrix(idx, kind) ==
    [i \in 1..Len(idx) |-> <<idx[i][1], matrix_row(idx, i, kind)>>]

within_range_reversed(distance, max_range) == distance >= max_range * MilliPerMetre

within_range_always(distance, max_range) == TRUE

\* distance <= max_range (millimetres against metres).
within_range_magnitude(distance, max_range) == distance <= Abs(max_range) * MilliPerMetre

within_range(distance, max_range) == distance <= max_range * MilliPerMetre

is_target_never(other_node_id, target_node) == FALSE

\* if other_node_id == target_node.id: continue
is_target(other_node_id, target_node) == other_node_id = target_node.id

\* The candidates of find_neighbors, in the row's enumeration order.
neighbors_within_range(idx, dm, bm, target_node, max_range) ==
    LET row == DictGet(dm, target_node.id)
        keep(e) ==
            /\ ~is_target(e[1], target_node)
            /\ within_range(e[2], max_range)
            /\ DictHas(idx, e[1])
            /\ Len(DictGet(idx, e[1]).gps) >= 2
        kept == SelectSeq(row, keep)
    IN  [i \in 1..Len(kept) |->
            [distance |-> kept[i][2],
             bearing  |-> DictGet(DictGet(bm, target_node.id), kept[i][1]),
             node     |-> DictGet(idx, kept[i][1])]]

\* A subscript of the candidate loop raises KeyError:
\* _distance_matrix[target_node.id] or _bearing_matrix[target_node.id][other_node_id].
subscript_key_error(idx, dm, bm, target_node, max_range) ==
    \/ ~DictHas(dm, target_node.id)
    \/ \E i \in 1..Len(DictGet(dm, target_node.id)) :
        LET e == DictGet(dm, target_node.id)[i]
        IN  /\ ~is_target(e[1], target_node)
            /\ within_range(e[2], max_range)
            /\ DictHas(idx, e[1])
            /\ Len(DictGet(idx, e[1]).gps) >= 2
            /\ \/ ~DictHas(bm, target_node.id)
               \/ ~DictHas(DictGet(bm, target_node.id), e[1])

insert_unsorted(sorted, x) == Append(sorted, x)

insert_sorted_descending(sorted, x) ==
    LET k == Cardinality({i \in 1..Len(sorted) : sorted[i].distance >= x.distance})
    IN  SubSeq(sorted, 1, k) \o <<x>> \o SubSeq(sorted, k + 1, Len(sorted))

insert_sorted_unstable(sorted, x) ==
    LET k == Cardinality({i \in 1..Len(sorted) : sorted[i].distance < x.distance})
    IN  SubSeq(sorted, 1, k) \o <<x>> \o SubSeq(sorted, k + 1, Len(sorted))

\* list.sort(key=lambda x: x[0]): stable, ascending by distance.
insert_sorted(sorted, x) ==
    LET k == Cardinality({i \in 1..Len(sorted) : sorted[i].distance <= x.distance})
    IN  SubSeq(sorted, 1, k) \o <<x>> \o SubSeq(sorted, k + 1, Len(sorted))

RECURSIVE sort_by_distance(_)
sort_by_distance(s) ==
    IF s = <<>> THEN <<>>
    ELSE insert_sorted(sort_by_distance(SubSeq(s, 1, Len(s) - 1)), s[Len(s)])

angular_diff_no_wrap(bearing, selected_bearing) == Abs(bearing - selected_bearing)

\* angular_diff = min(abs(bearing - selected_bearing), 360 - that)
angular_diff(bearing, selected_bearing) ==
    LET d == Abs(bearing - selected_bearing)
    IN  Min(d, FullCircle - d)

below_min_separation_inclusive(diff, sectors) ==
    IF sectors > 0 THEN diff * 2 * sectors <= FullCircle ELSE FALSE

below_min_separation_growing(diff, sectors) ==
    IF sectors > 0 THEN diff * 8 < FullCircle * sectors ELSE FALSE

\* angular_diff < min_angular_separation, with
\* min_angular_separation = 360.0 / sectors / 2 and sectors # 0.
below_min_separation(diff, sectors) ==
    IF sectors > 0 THEN diff * 2 * sectors < FullCircle ELSE FALSE

\* is_separated after the loop over selected_bearings.
is_separated(bearing, selected, sectors) ==
    \A i \in 1..Len(selected) :
        ~below_min_separation(angular_diff(bearing, selected[i].bearing), sectors)

enough_neighbors_never(selected, sectors) == FALSE

\* len(selected_neighbors) >= sectors
enough_neighbors(selected, sectors) == Len(selected) >= sectors

\* The greedy loop over neighbors_within_range.
RECURSIVE select_neighbors(_, _, _)
select_neighbors(cands, selected, sectors) ==
    IF cands = <<>> THEN selected
    ELSE IF is_separated(Head(cands).bearing, selected, sectors)
         THEN LET more == Append(selected, Head(cands))
              IN  IF enough_neighbors(more, sectors) THEN more
                  ELSE select_neighbors(Tail(cands), more, sectors)
         ELSE select_neighbors(Tail(cands), selected, sectors)

\* SphereNode(id=neighbor_node.id, gps=neighbor_node.gps)
link_of(c) == [id |-> c.node.id, gps |-> c.node.gps]

target_gps_invalid_unchecked(target_node) == FALSE

\* len(target_node.gps) < 2
target_gps_invalid(target_node) == Len(target_node.gps) < 2

\* target_node.id not in _distance_matrix
target_not_in_matrix(dm, target_node) == ~DictHas(dm, target_node.id)

\* SpatialIndex.find_neighbors: error is the exception it raises, or "none".
find_neighbors(idx, dm, bm, target_node, max_range, sectors) ==
    IF target_gps_invalid(target_node) THEN [error |-> "none", links |-> <<>>]
    ELSE IF target_not_in_matrix(dm, target_node) THEN [error |-> "none", links |-> <<>>]
    ELSE IF subscript_key_error(idx, dm, bm, target_node, max_range)
         THEN [error |-> "KeyError", links |-> <<>>]
    ELSE LET cands == sort_by_distance(
                          neighbors_within_range(idx, dm, bm, target_node, max_range))
         IN  IF cands = <<>> THEN [error |-> "none", links |-> <<>>]
             ELSE IF sectors = 0 THEN [error |-> "ZeroDivisionError", links |-> <<>>]
             ELSE LET selected == select_neighbors(cands, <<>>, sectors)
                  IN  [error |-> "none",
                       links |-> [i \in 1..Len(selected) |-> link_of(selected[i])]]

(***************************************************************************)
(* Ingestion: the remote GeoJSON documents, the fetch cache and the        *)
(* conversion of features to nodes.                                        *)
(*                                                                         *)
(* A URL string is [prefix, name, ext]: what precedes the file name, the   *)
(* file name, and its extension; the empty string has all three empty.     *)
(***************************************************************************)
CACHE_TTL == 2

EmptyString == [prefix |-> "", name |-> "", ext |-> ""]

Relative(name, ext) == [prefix |-> "", name |-> name, ext |-> ext]

\* make_absolute_url of parse_geojson_feature_to_sphere_node
make_absolute_url(url, base_url) ==
    IF url = EmptyString THEN EmptyString
    ELSE IF url.prefix \in {"http://", "https://"} THEN url
    ELSE IF base_url # "" THEN [url EXCEPT !.prefix = base_url]
    ELSE url

\* HttpUrl and validate_image_url of SphereNodePanorama
valid_image_url(url) ==
    /\ url.prefix \in {"http://", "https://", "https://livingiceproject.com/"}
    /\ url.ext \in {".jpg", ".jpeg", ".png", ".gif", ".webp"}

\* conlist(float, min_length=2, max_length=3) and validate_hours of SphereNode
valid_gps(gps) ==
    /\ Len(gps) >= 2 /\ Len(gps) <= 3
    /\ -360000 <= gps[1] /\ gps[1] <= 360000
    /\ -180000 <= gps[2] /\ gps[2] <= 180000
    /\ Len(gps) = 3 => gps[3] < 10000

\* A feature's geometry: the "geometry" member is an object, absent or null,
\* and its "coordinates" member is a list, absent or null.
Point(values) == [member |-> "object", coordinates |-> "list", values |-> values]

NoGeometry == [member |-> "absent", coordinates |-> "absent", values |-> <<>>]

NullGeometry == [member |-> "null", coordinates |-> "absent", values |-> <<>>]

NoCoordinates == [member |-> "object", coordinates |-> "absent", values |-> <<>>]

NullCoordinates == [member |-> "object", coordinates |-> "null", values |-> <<>>]

Feature(id, geometry, thumbnail) ==
    [id |-> id, geometry |-> geometry, filename |-> Relative("pano.jpg", ".jpg"),
     thumbnail |-> thumbnail, project |-> ""]

Thumb == Relative("thumb.jpg", ".jpg")

\* parse_geojson_feature_to_sphere_node raises before or in the constructor.
parse_raises(feature, base_url) ==
    LET coordinates == IF feature.geometry.coordinates = "list"
                       THEN feature.geometry.values ELSE <<>>
        gps == IF Len(coordinates) >= 2
               THEN IF Len(coordinates) = 3 THEN coordinates
                    ELSE <<coordinates[1], coordinates[2]>>
               ELSE <<0, 0>>
    IN  \/ feature.geometry.member = "null"
        \/ feature.geometry.member = "object" /\ feature.geometry.coordinates = "null"
        \/ ~valid_gps(gps)
        \/ ~valid_image_url(make_absolute_url(feature.filename, base_url))
        \/ ~valid_image_url(make_absolute_url(feature.thumbnail, base_url))

\* parse_geojson_feature_to_sphere_node, when it returns.
parse_geojson_feature_to_sphere_node(feature, base_url) ==
    LET coordinates == IF feature.geometry.coordinates = "list"
                       THEN feature.geometry.values ELSE <<>>
        gps == IF Len(coordinates) >= 2
               THEN IF Len(coordinates) = 3 THEN coordinates
                    ELSE <<coordinates[1], coordinates[2]>>
               ELSE <<0, 0>>
        node_id == IF feature.id # "absent" THEN feature.id
                   ELSE IF feature.filename # EmptyString THEN feature.filename.name
                   ELSE "unknown"
    IN  [id |-> node_id, gps |-> gps, project |-> feature.project, links |-> <<>>]

parse_features_abort(features, project_name, base_url) ==
    IF \E i \in 1..Len(features) : parse_raises(features[i], base_url) THEN <<>>
    ELSE [i \in 1..Len(features) |->
            parse_geojson_feature_to_sphere_node(features[i], base_url)]

\* The inner loop of get_all_sphere_nodes over the features of one document.
RECURSIVE parse_features(_, _, _)
parse_features(features, project_name, base_url) ==
    IF features = <<>> THEN <<>>
    ELSE IF parse_raises(Head(features), base_url)
         THEN parse_features(Tail(features), project_name, base_url)
         ELSE LET node == parse_geojson_feature_to_sphere_node(Head(features), base_url)
                  tagged == IF node.project = ""
                            THEN [node EXCEPT !.project = project_name] ELSE node
              IN  <<tagged>> \o parse_features(Tail(features), project_name, base_url)

\* The nodes one fetched document adds to all_nodes in get_all_sphere_nodes.
nodes_of_document(geojson_data, project_config) ==
    IF geojson_data.type = "FeatureCollection"
    THEN parse_features(geojson_data.features, project_config.name,
                        project_config.base_url)
    ELSE <<>>

cache_valid_inclusive(cache, stamps, url, t) ==
    /\ DictHas(cache, url)
    /\ DictHas(stamps, url)
    /\ t - DictGet(stamps, url) <= CACHE_TTL

\* fetch_geojson_from_url: the cached document is still valid at time t.
cache_valid(cache, stamps, url, t) ==
    /\ DictHas(cache, url)
    /\ DictHas(stamps, url)
    /\ t - DictGet(stamps, url) < CACHE_TTL

\* get_all_sphere_nodes from project k on, as far as it runs without
\* suspending: done, or waiting for the GET of project k.
\* What fetch_geojson_from_url did for one project of the loop: the document
\* it returned (or the exception it raised) and whether it issued a GET.
Fetched(document, get) == [document |-> document, get |-> get]

RECURSIVE run_projects(_, _, _, _, _, _, _)
run_projects(links, cache, stamps, t, k, all_nodes, fetched) ==
    IF k > Len(links)
    THEN [done |-> TRUE, k |-> k, all_nodes |-> all_nodes, fetched |-> fetched]
    ELSE IF cache_valid(cache, stamps, links[k].geojson_url, t)
         THEN run_projects(links, cache, stamps, t, k + 1,
                  all_nodes \o nodes_of_document(
                      DictGet(cache, links[k].geojson_url), links[k]),
                  Append(fetched, Fetched(DictGet(cache, links[k].geojson_url), FALSE)))
         ELSE [done |-> FALSE, k |-> k, all_nodes |-> all_nodes, fetched |-> fetched]

RECURSIVE add_nodes_index_fresh(_, _)
add_nodes_index_fresh(idx, nodes) ==
    IF nodes = <<>> THEN <<>>
    ELSE add_node_index(add_nodes_index_fresh(idx, SubSeq(nodes, 1, Len(nodes) - 1)),
                        nodes[Len(nodes)])

\* ensure_data_loaded after get_all_sphere_nodes returned: add_node for each node.
RECURSIVE add_nodes_index(_, _)
add_nodes_index(idx, nodes) ==
    IF nodes = <<>> THEN idx
    ELSE add_nodes_index(add_node_index(idx, Head(nodes)), Tail(nodes))

RECURSIVE add_nodes_grid(_, _)
add_nodes_grid(grid, nodes) ==
    IF nodes = <<>> THEN grid
    ELSE add_nodes_grid(add_node_grid(grid, Head(nodes)), Tail(nodes))

(***************************************************************************)
(* The index used as a library, as the unit tests use it: add_node,        *)
(* _compute_distance_and_bearing_matrices and find_neighbors called        *)
(* directly.                                                               *)
(***************************************************************************)
MaxAdds == 3

Node(id, gps) == [id |-> id, gps |-> gps, project |-> "Test", links |-> <<>>]

NodeUniverse ==
    { Node("t", <<0, 0>>), Node("c", <<0, 0>>), Node("n", <<0, 2>>),
      Node("e", <<2, 0>>), Node("s", <<0, -2>>), Node("w", <<-1, 5>>) }

\* The mock of test_find_neighbors_invalid_input: one coordinate only.
MockInvalid == [id |-> "t", gps |-> <<0>>, project |-> "Test", links |-> <<>>]

Ranges == {-100, 0, 120, 300}

Sectors == {0, 1, 2, 4}

NoCall == [op |-> "none"]

RECURSIVE SumLen(_)
SumLen(d) == IF d = <<>> THEN 0 ELSE Len(Head(d)[2]) + SumLen(Tail(d))

MaxRequests == 2

MaxTime == 2

MaxLoads == 2

\* SphereProjectLinks with the environment unset.
DefaultLinks ==
    << [name |-> "The Living Ice Project",
        geojson_url |-> "https://livingiceproject.com/static/shapes/spheres.geojson",
        base_url |-> "https://livingiceproject.com/"] >>

Document(type, features) == [type |-> type, features |-> features]

\* No document: the GET has not returned.
NoDocument == Document("none", <<>>)

\* The exception of a failed GET, on its way out of fetch_geojson_from_url.
FailedFetch == Document("HTTPException", <<>>)

NoResponse == [kind |-> "none"]

\* The state at import of the module.
InitState ==
    /\ spatial_index = <<>>
    /\ position_grid = <<>>
    /\ distance_matrix = <<>>
    /\ bearing_matrix = <<>>
    /\ geojson_cache = <<>>
    /\ cache_timestamp = <<>>
    /\ project_links = DefaultLinks
    /\ now = 0
    /\ requests = EmptyBag
    /\ response = NoResponse
    /\ loads = 0
    /\ call = NoCall

InitIndex == InitState

\* The caller makes one call at a time: call holds the result of a
\* find_neighbors call until the caller drops it (DropResult).
AddNodeCall(node) ==
    /\ call = NoCall
    /\ SumLen(position_grid) < MaxAdds
    /\ spatial_index' = add_node_index(spatial_index, node)
    /\ position_grid' = add_node_grid(position_grid, node)
    /\ UNCHANGED <<distance_matrix, bearing_matrix, call>>
    /\ UNCHANGED serviceVars

ComputeMatricesCall ==
    /\ call = NoCall
    /\ distance_matrix' = compute_matrix(spatial_index, "distance")
    /\ bearing_matrix' = compute_matrix(spatial_index, "bearing")
    /\ UNCHANGED <<spatial_index, position_grid, call>>
    /\ UNCHANGED serviceVars

FindNeighborsCall(target_node, max_range, sectors) ==
    /\ call = NoCall
    /\ LET r == find_neighbors(spatial_index, distance_matrix, bearing_matrix,
                               target_node, max_range, sectors)
       IN  call' = [op |-> "find_neighbors", target |-> target_node,
                    max_range |-> max_range, sectors |-> sectors,
                    error |-> r.error, links |-> r.links]
    /\ UNCHANGED indexVars
    /\ UNCHANGED serviceVars

DropResult ==
    /\ call # NoCall
    /\ call' = NoCall
    /\ UNCHANGED indexVars
    /\ UNCHANGED serviceVars

NextIndex ==
    \/ \E node \in NodeUniverse : AddNodeCall(node)
    \/ ComputeMatricesCall
    \/ DropResult
    \/ \E target_node \in NodeUniverse \cup {MockInvalid}, max_range \in Ranges,
          sectors \in Sectors :
            FindNeighborsCall(target_node, max_range, sectors)

SpecIndex == InitIndex /\ [][NextIndex]_vars

(***************************************************************************)
(* The service: the two handlers of the router, run concurrently on one    *)
(* event loop.  A handler runs without interruption up to an await that    *)
(* suspends: the GET of fetch_geojson_from_url, then the exit of its       *)
(* "async with" block.  The query parameters are read only after           *)
(* ensure_data_loaded has returned, so they are drawn where the handler    *)
(* reads them.  response holds a handler's response until the client has   *)
(* taken it (TakeResponse).                                                *)
(***************************************************************************)
\* What the remote source may answer to a GET that succeeds.
DocRing ==
    Document("FeatureCollection",
        << Feature("t", Point(<<0, 0>>), Thumb), Feature("n", Point(<<0, 2>>), Thumb),
           Feature("s", Point(<<0, -2>>), Thumb) >>)

\* Two features with the same id.
DocDup ==
    Document("FeatureCollection",
        << Feature("t", Point(<<0, 0>>), Thumb), Feature("n", Point(<<0, 2>>), Thumb),
           Feature("n", Point(<<0, 4>>), Thumb) >>)

\* A point with an altitude, a feature without thumbnail, a null geometry
\* and a feature without geometry.
DocMixed ==
    Document("FeatureCollection",
        << Feature("t", Point(<<0, 0, 120>>), Thumb),
           Feature("e", Point(<<2, 0>>), EmptyString),
           Feature("s", NullGeometry, Thumb),
           Feature("c", NoGeometry, Thumb) >>)

DocEmpty == Document("FeatureCollection", <<>>)

DocFeature == Document("Feature", << Feature("n", Point(<<0, 2>>), Thumb) >>)

\* The documents of two further sources, for configurations of several projects:
\* null coordinates, no coordinates and a list of one coordinate among them.
DocEast ==
    Document("FeatureCollection",
        << Feature("e", Point(<<2, 0>>), Thumb), Feature("x", NullCoordinates, Thumb),
           Feature("w", Point(<<-1, 5>>), Thumb), Feature("y", NoCoordinates, Thumb),
           Feature("z", Point(<<2>>), Thumb) >>)

DocHut == Document("FeatureCollection", << Feature("h", Point(<<1, 0>>), Thumb) >>)

EastProject ==
    [name |-> "East", geojson_url |-> "https://livingiceproject.com/east.geojson",
     base_url |-> "https://livingiceproject.com/"]

HutProject ==
    [name |-> "Hut", geojson_url |-> "https://livingiceproject.com/hut.geojson",
     base_url |-> "https://livingiceproject.com/"]

Upstream(url) ==
    IF url = EastProject.geojson_url THEN {DocEast}
    ELSE IF url = HutProject.geojson_url THEN {DocHut, DocFeature}
    ELSE IF Len(project_links) > 1 THEN {DocRing, DocMixed}
    ELSE {DocRing, DocDup, DocMixed, DocEmpty}

Documents == {DocRing, DocDup, DocMixed, DocEmpty, DocFeature, DocEast, DocHut}

\* How a GET fails: client.get, raise_for_status or response.json raises.
Failures == {"connect_error", "http_status_error", "invalid_json"}

\* An id the documents hold and one they do not.
RequestNodeIds == {"t", "zz"}

RequestRanges == {-100, 300}

RequestSectors == {0, 2}

Queries ==
    {[kind |-> "geojson", node_id |-> "", max_range |-> 0, sectors |-> 0]}
    \cup {q \in [kind : {"node"}, node_id : RequestNodeIds, max_range : RequestRanges,
                  sectors : RequestSectors] :
            q.node_id = "zz" => (q.max_range = 300 /\ q.sectors = 2)}

\* SphereGeojson.from_sphere_nodes: one feature per node of the list.
from_sphere_nodes(nodes) ==
    [i \in 1..Len(nodes) |-> [id |-> nodes[i].id, coordinates |-> nodes[i].gps]]

\* get_sphere_geojson after ensure_data_loaded returned nodes.
geojson_result(nodes) ==
    [status |-> 200, features |-> from_sphere_nodes(nodes), links |-> <<>>]

\* Python's None, as _spatial_index.get returns it.
None == [id |-> "None", gps |-> <<>>, project |-> "", links |-> <<>>]

\* _spatial_index.get(node_id)
index_get(idx, node_id) == IF DictHas(idx, node_id) THEN DictGet(idx, node_id) ELSE None

not_found_never(target_node) == FALSE

\* "if not target_node": a model instance is truthy.
not_found(target_node) == target_node = None

\* get_sphere_panorama_and_links after ensure_data_loaded returned; an
\* exception that is no HTTPException ends as a 500.
node_result(idx, dm, bm, q) ==
    IF not_found(index_get(idx, q.node_id))
    THEN [status |-> 404, features |-> <<>>, links |-> <<>>]
    ELSE LET found == find_neighbors(idx, dm, bm, index_get(idx, q.node_id),
                                     q.max_range, q.sectors)
         IN  IF found.error # "none"
             THEN [status |-> 500, features |-> <<>>, links |-> <<>>]
             ELSE [status |-> 200, features |-> <<>>, links |-> found.links]

stored_node_in_place(target_node, neighbors) == [target_node EXCEPT !.links = neighbors]

\* The index entry of the target once the handler has built its result: the
\* result is a new SphereNodePanorama, the entry keeps its own links.
stored_node(target_node, neighbors) == target_node

\* _spatial_index once the handler of query q has returned these links.
index_after_request(idx, q, status, links) ==
    IF q.kind = "node" /\ status = 200 /\ DictHas(idx, q.node_id)
    THEN DictSet(idx, q.node_id, stored_node(index_get(idx, q.node_id), links))
    ELSE idx

\* The response of the handler of query q, with what the request went through.
handler_response(q, nodes, idx, dm, bm, cold, fetch_failed, fetched) ==
    LET result == IF q.kind = "geojson" THEN geojson_result(nodes)
                  ELSE node_result(idx, dm, bm, q)
    IN  [kind |-> q.kind, node_id |-> q.node_id, max_range |-> q.max_range,
         sectors |-> q.sectors, status |-> result.status,
         features |-> result.features, links |-> result.links,
         cold |-> cold, fetch_failed |-> fetch_failed, fetched |-> fetched]

\* ensure_data_loaded from the return of get_all_sphere_nodes to the end of the
\* handler of query q; others are the handlers still suspended.
FinishLoad(others, q, nodes, fetch_failed, fetched) ==
    LET idx == add_nodes_index(spatial_index, nodes)
        dm == compute_matrix(idx, "distance")
        bm == compute_matrix(idx, "bearing")
        answer == handler_response(q, nodes, idx, dm, bm, TRUE, fetch_failed, fetched)
    IN  /\ spatial_index' = index_after_request(idx, q, answer.status, answer.links)
        /\ position_grid' = add_nodes_grid(position_grid, nodes)
        /\ distance_matrix' = dm
        /\ bearing_matrix' = bm
        /\ response' = answer
        /\ loads' = Min(loads + 1, MaxLoads)
        /\ requests' = others

\* The handler waits for the GET of project k.
Suspend(others, k, all_nodes, fetch_failed, fetched) ==
    /\ requests' = others (+) SetToBag({[pc |-> "get", k |-> k, all_nodes |-> all_nodes,
                                         pending |-> NoDocument,
                                         fetch_failed |-> fetch_failed,
                                         fetched |-> fetched]})
    /\ UNCHANGED <<indexVars, response, loads>>

\* The suspended handlers other than h.
Others(h) == requests (-) SetToBag({h})

\* The server runs at most MaxRequests handlers at a time.
CanAccept == BagCardinality(requests) < MaxRequests

needs_load_always(idx) == TRUE

\* ensure_data_loaded: "if not _spatial_index".
needs_load(idx) == idx = <<>>

\* A request on a populated index: ensure_data_loaded returns the indexed
\* nodes and the handler ends without suspending.
ArriveWarm(q) ==
    /\ response = NoResponse
    /\ CanAccept
    /\ ~needs_load(spatial_index)
    /\ LET answer == handler_response(q, DictValues(spatial_index), spatial_index,
                                      distance_matrix, bearing_matrix, FALSE, FALSE,
                                      <<>>)
       IN  /\ response' = answer
           /\ spatial_index' = index_after_request(spatial_index, q, answer.status,
                                                   answer.links)
    /\ UNCHANGED <<position_grid, distance_matrix, bearing_matrix>>
    /\ UNCHANGED <<fetchVars, project_links, now, requests, loads, call>>

\* A request on an empty index: get_all_sphere_nodes runs to its first GET, or
\* to its end when every document comes from the cache.
ArriveCold(q) ==
    /\ response = NoResponse
    /\ CanAccept
    /\ needs_load(spatial_index)
    /\ LET st == run_projects(project_links, geojson_cache, cache_timestamp, now,
                              1, <<>>, <<>>)
       IN  IF st.done THEN FinishLoad(requests, q, st.all_nodes, FALSE, st.fetched)
           ELSE Suspend(requests, st.k, st.all_nodes, FALSE, st.fetched)
    /\ UNCHANGED <<fetchVars, project_links, now, call>>

\* The GET of handler h returns a document, parsed and cached, ...
GetSucceedsFor(h, doc) ==
    /\ response = NoResponse
    /\ h.pc = "get"
    /\ LET url == project_links[h.k].geojson_url
       IN  /\ doc \in Upstream(url)
           /\ geojson_cache' = DictSet(geojson_cache, url, doc)
           /\ cache_timestamp' = DictSet(cache_timestamp, url, now)
    /\ requests' = Others(h) (+) SetToBag({[h EXCEPT !.pc = "aexit", !.pending = doc]})
    /\ UNCHANGED <<indexVars, project_links, now, response, loads, call>>

GetSucceeds(doc) == \E h \in BagToSet(requests) : GetSucceedsFor(h, doc)

stamps_refreshed_on_failure(stamps, url, t) ==
    IF DictHas(stamps, url) THEN DictSet(stamps, url, t) ELSE stamps

\* The except branch of fetch_geojson_from_url stores nothing: the
\* timestamps after a GET that failed at time t.
stamps_after_failure(stamps, url, t) == stamps

\* ... or fails: the exception becomes an HTTPException(500).
GetFailsFor(h, failure) ==
    /\ response = NoResponse
    /\ h.pc = "get"
    /\ failure \in Failures
    /\ requests' = Others(h) (+) SetToBag({[h EXCEPT !.pc = "aexit",
                                                     !.pending = FailedFetch,
                                                     !.fetch_failed = TRUE]})
    /\ cache_timestamp' = stamps_after_failure(cache_timestamp,
                                               project_links[h.k].geojson_url, now)
    /\ UNCHANGED <<indexVars, geojson_cache, project_links, now, response, loads, call>>

GetFails(failure) == \E h \in BagToSet(requests) : GetFailsFor(h, failure)

after_fetch_abort(all_nodes, pending, project_config) ==
    IF pending = FailedFetch THEN <<>>
    ELSE all_nodes \o nodes_of_document(pending, project_config)

\* all_nodes after the loop body of get_all_sphere_nodes for one project: the
\* document's nodes are appended, or the exception is logged and the loop
\* continues.
after_fetch(all_nodes, pending, project_config) ==
    IF pending = FailedFetch THEN all_nodes
    ELSE all_nodes \o nodes_of_document(pending, project_config)

\* After the "async with" block: the document's features are parsed, or the
\* HTTPException is caught by get_all_sphere_nodes, and the loop goes on.
AfterExitFor(h, q) ==
    /\ response = NoResponse
    /\ h.pc = "aexit"
    /\ LET all_nodes == after_fetch(h.all_nodes, h.pending, project_links[h.k])
           st == run_projects(project_links, geojson_cache, cache_timestamp, now,
                              h.k + 1, all_nodes,
                              Append(h.fetched, Fetched(h.pending, TRUE)))
       IN  IF st.done
           THEN FinishLoad(Others(h), q, st.all_nodes, h.fetch_failed, st.fetched)
           ELSE Suspend(Others(h), st.k, st.all_nodes, h.fetch_failed, st.fetched)
    /\ UNCHANGED <<fetchVars, project_links, now, call>>

AfterExit(q) == \E h \in BagToSet(requests) : AfterExitFor(h, q)

\* Half an hour passes.
Tick ==
    /\ response = NoResponse
    /\ now < MaxTime
    /\ now' = now + 1
    /\ UNCHANGED <<indexVars, fetchVars, project_links, requests, response, loads, call>>

\* The client takes the response.
TakeResponse ==
    /\ response # NoResponse
    /\ response' = NoResponse
    /\ UNCHANGED <<indexVars, fetchVars, project_links, now, requests, loads, call>>

Init == InitState

Next ==
    \/ \E q \in Queries : ArriveWarm(q)
    \/ \E q \in Queries : ArriveCold(q)
    \/ \E doc \in Documents : GetSucceeds(doc)
    \/ \E failure \in Failures : GetFails(failure)
    \/ \E q \in Queries : AfterExit(q)
    \/ Tick
    \/ TakeResponse

Spec == Init /\ [][Next]_vars

(***************************************************************************)
(* The service handling its requests one after another, configured with    *)
(* one project or with several.                                            *)
(***************************************************************************)
ProjectConfigurations ==
    { DefaultLinks, <<DefaultLinks[1], EastProject>>,
      <<EastProject, DefaultLinks[1], HutProject>> }

InitSequential ==
    /\ spatial_index = <<>>
    /\ position_grid = <<>>
    /\ distance_matrix = <<>>
    /\ bearing_matrix = <<>>
    /\ geojson_cache = <<>>
    /\ cache_timestamp = <<>>
    /\ project_links \in ProjectConfigurations
    /\ now = 0
    /\ requests = EmptyBag
    /\ response = NoResponse
    /\ loads = 0
    /\ call = NoCall

\* No handler is running when the next request arrives.
ArriveWarmAlone(q) == requests = EmptyBag /\ ArriveWarm(q)

ArriveColdAlone(q) == requests = EmptyBag /\ ArriveCold(q)

NextSequential ==
    \/ \E q \in Queries : ArriveWarmAlone(q)
    \/ \E q \in Queries : ArriveColdAlone(q)
    \/ \E doc \in Documents : GetSucceeds(doc)
    \/ \E failure \in Failures : GetFails(failure)
    \/ \E q \in Queries : AfterExit(q)
    \/ Tick
    \/ TakeResponse

SpecSequential == InitSequential /\ [][NextSequential]_vars

(***************************************************************************)
(* Claims about find_neighbors, on the result of a direct call.  While     *)
(* call holds a result the index and the matrices are those the call saw.  *)
(***************************************************************************)
Called == call.op = "find_neighbors"

\* The row of the target in a matrix, as a set of <<id, value>> pairs.
RowOf(m, id) == IF DictHas(m, id) THEN {DictGet(m, id)[i] : i \in 1..Len(DictGet(m, id))} ELSE {}

\* The bearing stored for the link in the target's row of the bearing matrix.
StoredBearing(link) == DictGet(DictGet(bearing_matrix, call.target.id), link.id)

\* The distance stored for the link in the target's row of the distance matrix.
StoredDistance(link) == DictGet(DictGet(distance_matrix, call.target.id), link.id)

\* min(|b1 - b2|, 360 - |b1 - b2|), in 1/10000 degree.
CircularDifference(b1, b2) ==
    LET d == IF b1 >= b2 THEN b1 - b2 ELSE b2 - b1
    IN  IF d <= FullCircle - d THEN d ELSE FullCircle - d

\* The ids other than the target's whose stored distance is at most r metres.
InRangeIds(r) ==
    {e[1] : e \in {x \in RowOf(distance_matrix, call.target.id) :
                      x[1] # call.target.id /\ x[2] <= r * MilliPerMetre}}

\* What find_neighbors returns now for the call's target and sectors with range r.
LinksAtRange(r) ==
    find_neighbors(spatial_index, distance_matrix, bearing_matrix,
                   call.target, r, call.sectors).links

\* C1: any two distinct links returned by find_neighbors with sectors > 0 have
\* stored bearings whose circular difference is at least 360 / sectors / 2.
C1_AngularSeparation ==
    (Called /\ call.sectors > 0) =>
        \A i \in 1..Len(call.links) : \A j \in 1..Len(call.links) :
            i # j =>
                CircularDifference(StoredBearing(call.links[i]),
                                   StoredBearing(call.links[j])) * 2 * call.sectors
                    >= FullCircle

\* C1 witness: a call that returned two links whose stored bearings lie more
\* than half a circle apart, so that their difference is taken the short way.
C1_Witness ==
    /\ Called /\ call.sectors > 0
    /\ \E i \in 1..Len(call.links) : \E j \in 1..Len(call.links) :
          StoredBearing(call.links[i]) - StoredBearing(call.links[j]) > FullCircle \div 2

\* C2: find_neighbors with sectors > 0 returns at most sectors links.
C2_SectorCap ==
    (Called /\ call.sectors > 0) => Len(call.links) <= call.sectors

\* C2 witness: the cap stopped the loop before an in-range node that is
\* separated from every returned link.
C2_Witness ==
    /\ Called /\ call.sectors > 0
    /\ Len(call.links) = call.sectors
    /\ \E id \in InRangeIds(call.max_range) :
          /\ \A i \in 1..Len(call.links) : call.links[i].id # id
          /\ \A i \in 1..Len(call.links) :
                CircularDifference(StoredBearing([id |-> id]),
                                   StoredBearing(call.links[i])) * 2 * call.sectors
                    >= FullCircle

\* C3: for a fixed index state, target and sectors > 0, a larger max_range
\* never returns fewer links.
C3_RangeMonotone ==
    (Called /\ call.sectors > 0) =>
        \A r \in Ranges :
            /\ r >= call.max_range => Len(call.links) <= Len(LinksAtRange(r))
            /\ r <= call.max_range => Len(LinksAtRange(r)) <= Len(call.links)

\* C3 witness: a call whose result is strictly longer than that of a smaller,
\* non-empty range.
C3_Witness ==
    /\ Called /\ call.sectors > 0
    /\ \E r \in Ranges :
          /\ r < call.max_range
          /\ LinksAtRange(r) # <<>>
          /\ Len(LinksAtRange(r)) < Len(call.links)

C6_MissingTarget ==
    (Called /\ (~DictHas(distance_matrix, call.target.id) \/ Len(call.target.gps) < 2)) =>
        call.error = "none" /\ call.links = <<>>

\* C6 witness: the target was added to the index after the matrices were
\* computed, and another indexed node with a row lies within range.
C6_Witness ==
    /\ Called
    /\ DictHas(spatial_index, call.target.id)
    /\ ~DictHas(distance_matrix, call.target.id)
    /\ distance_matrix # <<>>
    /\ call.max_range > 0 /\ call.sectors > 0
    /\ call.error = "none" /\ call.links = <<>>

\* C6 witness of the other case: the mock target with one coordinate, whose id
\* has a row with in-range nodes.
C6_WitnessShortGps ==
    /\ Called
    /\ Len(call.target.gps) < 2
    /\ InRangeIds(call.max_range) # {}
    /\ call.links = <<>>

(***************************************************************************)
(* Claims about the two endpoints.  A state with response # NoResponse is  *)
(* the state in which a handler has just returned: the index is the index  *)
(* "after that request".                                                   *)
(***************************************************************************)
Responded(kind) == response # NoResponse /\ response.kind = kind

FeatureIds(features) == {features[i].id : i \in 1..Len(features)}

\* C5: a get-node request with max_range < 0 for an indexed node id answers
\* 200 with an empty links list, whatever the sectors value (0 included).
C5_NegativeRange ==
    (/\ Responded("node")
     /\ response.max_range < 0
     /\ DictHas(spatial_index, response.node_id))
    => response.status = 200 /\ response.links = <<>>

\* The target shares its position with another indexed node and sectors is 0.
C5_Witness ==
    /\ Responded("node")
    /\ response.max_range < 0
    /\ response.sectors = 0
    /\ response.status = 200
    /\ DictHas(spatial_index, response.node_id)
    /\ \E other \in DictKeySet(spatial_index) :
          /\ other # response.node_id
          /\ DictGet(DictGet(distance_matrix, response.node_id), other) = 0

\* C7: a get-node request answers 404 when its node id is not in the index
\* after the load attempt (hence no 5xx), and never answers 404 when it is,
\* on a cold or warm index and whether the upstream fetch failed or not.
C7_UnknownIs404 ==
    Responded("node")
    => IF DictHas(spatial_index, response.node_id)
       THEN response.status # 404
       ELSE response.status = 404

\* A 404 from the request whose own load failed upstream.
C7_Witness ==
    /\ Responded("node")
    /\ response.cold
    /\ response.fetch_failed
    /\ response.status = 404
    /\ ~DictHas(spatial_index, response.node_id)

\* ensure_data_loaded called in the state a handler left, when it returns
\* without fetching: the indexed nodes, or the nodes of the cached documents.
returns_without_fetch(idx, cache, stamps, t) ==
    \/ idx # <<>>
    \/ run_projects(project_links, cache, stamps, t, 1, <<>>, <<>>).done

ensure_data_loaded_again(idx, cache, stamps, t) ==
    IF idx # <<>> THEN DictValues(idx)
    ELSE run_projects(project_links, cache, stamps, t, 1, <<>>, <<>>).all_nodes

\* C8: from an empty index and without a fetch failure, a second
\* ensure_data_loaded returns the same nodes as the first (as many, with the
\* same contents), and a call on a loaded index leaves the index, the grid
\* and the matrices unchanged.
C8_Idempotent ==
    [][(/\ response = NoResponse
        /\ response' # NoResponse
        /\ response'.kind = "geojson"
        /\ ~response'.fetch_failed)
       => IF response'.cold
          THEN (/\ spatial_index = <<>>
                /\ returns_without_fetch(spatial_index', geojson_cache',
                                         cache_timestamp', now'))
               => from_sphere_nodes(ensure_data_loaded_again(
                      spatial_index', geojson_cache', cache_timestamp', now'))
                  = response'.features
          ELSE UNCHANGED indexVars]_vars

\* C9: the collection GET /spheres/geojson returns has exactly one feature
\* for each node id in the index after the request, the request that loads
\* the index included, and no feature for any other id.
C9_ListIsIndex ==
    Responded("geojson")
    => /\ FeatureIds(response.features) = DictKeySet(spatial_index)
       /\ Len(response.features) = Cardinality(DictKeySet(spatial_index))

\* C10: a request whose load met a failing upstream fetch (no connection, a
\* non-success status, invalid JSON) ends with a 5xx.
C10_FailureIs5xx ==
    (response # NoResponse /\ response.fetch_failed) => response.status >= 500

(***************************************************************************)
(* Claims about ingestion.  response.fetched lists, for the request that   *)
(* ran the load, what fetch_geojson_from_url did for each project.         *)
(***************************************************************************)
ColdList == Responded("geojson") /\ response.cold

IdsOf(features) == [i \in 1..Len(features) |-> features[i].id]

Converts(feature, base_url) == ~parse_raises(feature, base_url)

\* The ids of the features of a document that convert to a node, in order.
RECURSIVE ConvertingIds(_, _)
ConvertingIds(features, base_url) ==
    IF features = <<>> THEN <<>>
    ELSE (IF Converts(Head(features), base_url) THEN <<Head(features).id>> ELSE <<>>)
         \o ConvertingIds(Tail(features), base_url)

FetchFailed(fetch) == fetch.document = FailedFetch

\* What project k owes to the list, given what its fetch returned.
Contribution(fetched, k) ==
    IF FetchFailed(fetched[k]) \/ fetched[k].document.type # "FeatureCollection"
    THEN <<>>
    ELSE ConvertingIds(fetched[k].document.features, project_links[k].base_url)

RECURSIVE Contributions(_, _)
Contributions(fetched, k) ==
    IF k > Len(fetched) THEN <<>>
    ELSE Contribution(fetched, k) \o Contributions(fetched, k + 1)

\* C11: get_all_sphere_nodes returns, in project order, every convertible
\* node of every project whose fetch succeeded and nothing for a project
\* whose fetch failed, wherever the failing projects stand in the order.
C11_ProjectIsolation ==
    ColdList
    => /\ Len(response.fetched) = Len(project_links)
       /\ IdsOf(response.features) = Contributions(response.fetched, 1)

\* Three projects: the second fails, the first and the third deliver nodes.
C11_Witness ==
    /\ ColdList
    /\ Len(project_links) = 3
    /\ FetchFailed(response.fetched[2])
    /\ Contribution(response.fetched, 1) # <<>>
    /\ Contribution(response.fetched, 3) # <<>>
    /\ Len(response.features) > 1

\* C12: within one fetched FeatureCollection a feature whose conversion
\* fails is skipped, the features before and after it that convert are all
\* returned, and the request does not fail.
C12_FeatureIsolation ==
    (/\ ColdList
     /\ Len(response.fetched) = 1
     /\ ~FetchFailed(response.fetched[1])
     /\ response.fetched[1].document.type = "FeatureCollection")
    => /\ response.status = 200
       /\ IdsOf(response.features)
          = ConvertingIds(response.fetched[1].document.features,
                          project_links[1].base_url)

\* A failing feature stands between two that convert.
C12_Witness ==
    /\ ColdList
    /\ Len(response.fetched) = 1
    /\ ~FetchFailed(response.fetched[1])
    /\ \E i, j, k \in 1..Len(response.fetched[1].document.features) :
          /\ i < j /\ j < k
          /\ Converts(response.fetched[1].document.features[i], project_links[1].base_url)
          /\ ~Converts(response.fetched[1].document.features[j], project_links[1].base_url)
          /\ Converts(response.fetched[1].document.features[k], project_links[1].base_url)
    /\ Len(response.features) = 2

UrlOf(k) == project_links[k].geojson_url

\* The cache holds an entry for url that is less than one hour old.
FreshEntry(url) ==
    /\ DictHas(geojson_cache, url)
    /\ DictHas(cache_timestamp, url)
    /\ now - DictGet(cache_timestamp, url) < CACHE_TTL

\* The handlers that a step starts or moves on.
Started == {h \in BagToSet(requests') : CopiesIn(h, requests') > CopiesIn(h, requests)}

Left == {h \in BagToSet(requests) : CopiesIn(h, requests) > CopiesIn(h, requests')}

ColdReturn == response = NoResponse /\ response' # NoResponse /\ response'.cold

\* The last project for which the handler issued a GET.
LastGet(fetched) ==
    IF \E k \in 1..Len(fetched) : fetched[k].get
    THEN CHOOSE k \in 1..Len(fetched) :
            fetched[k].get /\ \A later \in (k + 1)..Len(fetched) : ~fetched[later].get
    ELSE 0

\* The fetches a handler has just completed without a GET found a fresh
\* entry and returned its document.
ServedFromCache(fetched) ==
    \A k \in (LastGet(fetched) + 1)..Len(fetched) :
        FreshEntry(UrlOf(k)) /\ fetched[k].document = DictGet(geojson_cache, UrlOf(k))

\* C13: fetch_geojson_from_url issues no GET and returns the stored document
\* when the cache holds an entry for the url less than one hour old; otherwise
\* (no entry, or one hour old or more) it issues one GET and, when the GET
\* succeeds, stores the new document under the url with the current time and
\* returns the new document.
C13_FetchCacheTTL ==
    [][/\ \A h \in Started :
            h.pc = "get" => /\ ~FreshEntry(UrlOf(h.k))
                            /\ h.k = Len(h.fetched) + 1
                            /\ ServedFromCache(h.fetched)
       /\ ColdReturn => ServedFromCache(response'.fetched)
       /\ \A h \in Started :
            (h.pc = "aexit" /\ h.pending # FailedFetch)
            => /\ DictHas(geojson_cache', UrlOf(h.k))
               /\ DictGet(geojson_cache', UrlOf(h.k)) = h.pending
               /\ DictGet(cache_timestamp', UrlOf(h.k)) = now
               /\ \A k \in 1..Len(project_links) :
                    (k # h.k /\ DictHas(geojson_cache, UrlOf(k)))
                    => /\ DictGet(geojson_cache', UrlOf(k)) = DictGet(geojson_cache, UrlOf(k))
                       /\ DictGet(cache_timestamp', UrlOf(k))
                          = DictGet(cache_timestamp, UrlOf(k))
       /\ \A g \in Left :
            g.pc = "aexit"
            => \/ ColdReturn /\ response'.fetched[g.k] = Fetched(g.pending, TRUE)
               \/ \E h \in Started : h.fetched[g.k] = Fetched(g.pending, TRUE)
      ]_vars

\* A GET is in flight for a url whose entry is one hour old or more.
C13_Witness ==
    \E h \in BagToSet(requests) :
        /\ h.pc = "get"
        /\ DictHas(geojson_cache, UrlOf(h.k))
        /\ now - DictGet(cache_timestamp, UrlOf(h.k)) >= CACHE_TTL

\* A request is answered from an entry less than one hour old, without a GET.
C13_WitnessCached ==
    /\ response # NoResponse
    /\ response.cold
    /\ \E k \in 1..Len(response.fetched) : ~response.fetched[k].get

(***************************************************************************)
(* Claims about the life of the index.                                     *)
(***************************************************************************)
WarmReturn == response = NoResponse /\ response' # NoResponse /\ ~response'.cold

StoredLinksEmpty ==
    \A i \in 1..Len(spatial_index) : spatial_index[i][2].links = <<>>

\* C14: a get-node or list-all request on a warm index changes neither the
\* id-to-node mapping, nor the grid, nor the two matrices, and the nodes
\* stored in the index always have an empty links list.
C14_QueriesDoNotMutate ==
    /\ []StoredLinksEmpty
    /\ [][WarmReturn => UNCHANGED indexVars]_vars

\* A warm get-node request returned links; its target's stored links are empty.
C14_Witness ==
    /\ Responded("node")
    /\ ~response.cold
    /\ response.links # <<>>
    /\ DictGet(spatial_index, response.node_id).links = <<>>

\* The shared structures as one load of these nodes into an empty index
\* leaves them.
LoadedFrom(nodes) ==
    LET idx == add_nodes_index(<<>>, nodes)
    IN  <<idx, add_nodes_grid(<<>>, nodes), compute_matrix(idx, "distance"),
          compute_matrix(idx, "bearing")>>

\* The loads a single request can make: of one of the documents the source
\* serves, or of nothing when its fetch fails.
SingleLoads ==
    {LoadedFrom(<<>>)}
    \cup {LoadedFrom(nodes_of_document(doc, project_links[1])) :
            doc \in Upstream(UrlOf(1))}

\* C15: once every request has completed, concurrent first loads included,
\* the id-to-node mapping, the grid and the two matrices are those of a
\* single load of one of the fetched documents.
C15_RaceHarmless ==
    (requests = EmptyBag /\ Len(project_links) = 1) => indexVars \in SingleLoads

\* C16 as stated: with requests handled one after another, the load
\* pipeline and its matrix build run at most once in the life of the process,
\* also when the first load produced no node.
C16_BuiltOnce == loads <= 1

\* C16: with requests handled one after another, a request runs the load
\* pipeline (fetch, indexing, matrix build) exactly when it finds the index
\* empty; after a load that indexed a node no request runs it again, and
\* after a load that indexed none the next request runs it again.
C16_BuiltWhileEmpty ==
    [][/\ (ColdReturn \/ loads' # loads \/ Started # {}) => spatial_index = <<>>
       /\ (response = NoResponse /\ response' # NoResponse /\ spatial_index = <<>>)
          => response'.cold /\ (loads' = loads + 1 \/ loads = MaxLoads)
       /\ spatial_index # <<>>
          => UNCHANGED <<position_grid, distance_matrix, bearing_matrix, fetchVars,
                         requests, loads>>
      ]_vars

\* A second load has run, the first having indexed no node.
C16_Witness ==
    /\ response # NoResponse
    /\ response.cold
    /\ loads > 1

\* A request arrives and returns without suspending.
ServedAtOnce == response = NoResponse /\ response' # NoResponse /\ requests' = requests

\* C17: once the index is non-empty it stays non-empty and loses no id, and a
\* request that starts from then on issues no fetch and rebuilds no matrix,
\* also when the cached document is more than one hour old.
C17_NoRefresh ==
    [][spatial_index # <<>>
       => /\ spatial_index' # <<>>
          /\ DictKeySet(spatial_index) \subseteq DictKeySet(spatial_index')
          /\ BagCardinality(requests') <= BagCardinality(requests)
          /\ \A h \in Started : h.pc # "get"
          /\ ServedAtOnce
             => /\ ~response'.cold
                /\ UNCHANGED <<distance_matrix, bearing_matrix, fetchVars, loads>>
      ]_vars

\* A request served from the index while the cached document is too old.
C17_Witness ==
    /\ response # NoResponse
    /\ ~response.cold
    /\ spatial_index # <<>>
    /\ DictHas(cache_timestamp, UrlOf(1))
    /\ now - DictGet(cache_timestamp, UrlOf(1)) >= CACHE_TTL

(***************************************************************************)
(* Claims about the matrices.                                              *)
(***************************************************************************)
\* Matrix m has one row for each id of idx and no other, each row has one
\* entry for each id of idx and no other, and the entry of an id in its own
\* row is 0.
Dense(m, idx) ==
    /\ Len(m) = Len(idx)
    /\ DictKeySet(m) = DictKeySet(idx)
    /\ \A a \in DictKeySet(idx) :
          /\ Len(DictGet(m, a)) = Len(idx)
          /\ DictKeySet(DictGet(m, a)) = DictKeySet(idx)
          /\ DictGet(DictGet(m, a), a) = 0

\* C18: right after _compute_distance_and_bearing_matrices both matrices have
\* exactly the ids of the index as row keys, every row has an entry for every
\* id of the index, and the distance and the bearing of a node to itself
\* are 0.
C18_MatricesDense ==
    [][ComputeMatricesCall
       => /\ Dense(distance_matrix', spatial_index')
          /\ Dense(bearing_matrix', spatial_index')]_vars

\* Matrices computed over three nodes, two of them at the same position.
C18_Witness ==
    /\ Len(spatial_index) = 3
    /\ Dense(distance_matrix, spatial_index)
    /\ Dense(bearing_matrix, spatial_index)
    /\ \E a, b \in DictKeySet(spatial_index) :
          a # b /\ DictGet(DictGet(distance_matrix, a), b) = 0

Symmetric(m) ==
    \A a, b \in DictKeySet(m) :
        DictGet(DictGet(m, a), b) = DictGet(DictGet(m, b), a)

\* C19: right after the matrices are computed, the stored distance from a to
\* b equals the stored distance from b to a for all indexed nodes a and b.
C19_DistanceSymmetric ==
    [][ComputeMatricesCall
       => /\ DictKeySet(distance_matrix') = DictKeySet(spatial_index')
          /\ Symmetric(distance_matrix')]_vars

\* Computed distances between three nodes at three positions, one off the axes.
C19_Witness ==
    /\ Len(spatial_index) = 3
    /\ Dense(distance_matrix, spatial_index)
    /\ DictHas(spatial_index, "w")
    /\ \A a, b \in DictKeySet(spatial_index) :
          a # b => DictGet(DictGet(distance_matrix, a), b) > 0

\* C20: a get-node request with sectors = 0 for an indexed node ends with
\* status 200 or 422, also when another node lies within max_range of the
\* target.
C20_ZeroSectors ==
    (/\ Responded("node")
     /\ response.sectors = 0
     /\ DictHas(spatial_index, response.node_id))
    => response.status \in {200, 422}

(***************************************************************************)
(* Claims about the selection as a function of its arguments.              *)
(***************************************************************************)
\* What find_neighbors returns now for the call's target and range with s sectors.
LinksAtSectors(s) ==
    find_neighbors(spatial_index, distance_matrix, bearing_matrix,
                   call.target, call.max_range, s).links

\* The call returned a list (it raised nothing) and sectors > 0.
Returned == Called /\ call.sectors > 0 /\ call.error = "none"

\* The call got past the early returns to the candidate loop: the target has
\* a position and a row in the distance matrix.
Selecting ==
    /\ Returned
    /\ Len(call.target.gps) >= 2
    /\ DictHas(distance_matrix, call.target.id)

C22_LinksSound ==
    Returned =>
        \A i \in 1..Len(call.links) :
            LET link == call.links[i]
            IN  /\ DictHas(spatial_index, link.id)
                /\ link.id # call.target.id
                /\ \A j \in 1..Len(call.links) : j # i => call.links[j].id # link.id
                /\ StoredDistance(link) <= call.max_range * MilliPerMetre
                /\ link = [id  |-> DictGet(spatial_index, link.id).id,
                           gps |-> DictGet(spatial_index, link.id).gps]

\* C22 witness: a call that returned a link while the target's row also
\* holds an entry beyond max_range.
C22_Witness ==
    /\ Returned
    /\ call.links # <<>>
    /\ \E e \in RowOf(distance_matrix, call.target.id) :
          e[2] > call.max_range * MilliPerMetre

\* The position of id in the target's row of the distance matrix.
RowIndex(id) ==
    CHOOSE i \in 1..Len(DictGet(distance_matrix, call.target.id)) :
        DictGet(distance_matrix, call.target.id)[i][1] = id

\* The indexed ids other than the target's within max_range of it.
CandidateIds == {id \in InRangeIds(call.max_range) : DictHas(spatial_index, id)}

\* id1 is scanned before id2: nearer, or as near and earlier in the row.
ScannedBefore(id1, id2) ==
    \/ StoredDistance([id |-> id1]) < StoredDistance([id |-> id2])
    \/ /\ StoredDistance([id |-> id1]) = StoredDistance([id |-> id2])
       /\ RowIndex(id1) < RowIndex(id2)

\* The candidates in scanning order.
Scan ==
    [k \in 1..Cardinality(CandidateIds) |->
        CHOOSE id \in CandidateIds :
            Cardinality({o \in CandidateIds : ScannedBefore(o, id)}) = k - 1]

\* The reference selection after the first k candidates of the scan: a
\* candidate is admitted iff fewer than sectors are admitted so far and its
\* bearing differs from every admitted one's by at least 360 / sectors / 2.
RECURSIVE Reference(_)
Reference(k) ==
    IF k = 0 THEN <<>>
    ELSE LET admitted == Reference(k - 1)
             separated ==
                 \A j \in 1..Len(admitted) :
                     CircularDifference(StoredBearing([id |-> Scan[k]]),
                                        StoredBearing([id |-> admitted[j]]))
                         * 2 * call.sectors >= FullCircle
         IN  IF Len(admitted) < call.sectors /\ separated
             THEN Append(admitted, Scan[k])
             ELSE admitted

\* C23: the ids find_neighbors returns with sectors > 0 are, in order, those
\* the reference selection admits: scan the in-range candidates by ascending
\* distance, admit a candidate iff its circular bearing difference to every
\* admitted one is at least 360 / sectors / 2, stop at sectors admitted.
C23_GreedyIsReference ==
    Selecting =>
        [i \in 1..Len(call.links) |-> call.links[i].id]
            = Reference(Cardinality(CandidateIds))

\* C23 witness: a call that returned a link, fewer links than sectors, and
\* not every candidate: one was refused for its bearing.
C23_Witness ==
    /\ Selecting
    /\ call.links # <<>>
    /\ Len(call.links) < call.sectors
    /\ Len(call.links) < Cardinality(CandidateIds)

\* C24: with sectors > 0, whenever at least one other indexed node is within
\* max_range of the target, the result is not empty and its first link is a
\* candidate of minimum distance; a single candidate is returned alone.
C24_ClosestAdmitted ==
    (Selecting /\ CandidateIds # {}) =>
        /\ call.links # <<>>
        /\ call.links[1].id \in CandidateIds
        /\ \A id \in CandidateIds :
              StoredDistance(call.links[1]) <= StoredDistance([id |-> id])
        /\ Cardinality(CandidateIds) = 1 =>
              {call.links[i].id : i \in 1..Len(call.links)} = CandidateIds

\* C24 witness: the first link is strictly nearer than another candidate that
\* precedes it in the target's row.
C24_Witness ==
    /\ Selecting
    /\ call.links # <<>>
    /\ \E id \in CandidateIds :
          /\ StoredDistance(call.links[1]) < StoredDistance([id |-> id])
          /\ RowIndex(id) < RowIndex(call.links[1].id)

\* C24 witness: a single candidate, returned alone.
C24_WitnessSingle ==
    /\ Selecting
    /\ Cardinality(CandidateIds) = 1
    /\ Len(call.links) = 1

(***************************************************************************)
(* Claims about the spatial grid.                                          *)
(***************************************************************************)
\* How many times id is listed in the cells of the grid.
GridListings(id) ==
    Cardinality(UNION {{<<c, i>> : i \in {j \in 1..Len(position_grid[c][2]) :
                                             position_grid[c][2][j] = id}} :
                       c \in 1..Len(position_grid)})

\* C25: after any sequence of add_node calls (the same id at two positions
\* and repeated loads included) every id listed in a grid cell is an indexed
\* node whose current position quantizes to the cell's key, and every indexed
\* id is listed exactly once in the whole grid.
C25_GridConsistent ==
    /\ \A c \in 1..Len(position_grid) :
          \A i \in 1..Len(position_grid[c][2]) :
              LET id == position_grid[c][2][i]
              IN  /\ DictHas(spatial_index, id)
                  /\ get_grid_key(DictGet(spatial_index, id).gps[1],
                                  DictGet(spatial_index, id).gps[2])
                         = position_grid[c][1]
    /\ \A id \in DictKeySet(spatial_index) : GridListings(id) = 1

(***************************************************************************)
(* Claims about the conversion of a feature.                               *)
(***************************************************************************)
\* The feature's coordinates are missing or malformed: no geometry, a null
\* geometry, no coordinates, null coordinates or fewer than two of them.
MissingCoordinates(feature) ==
    \/ feature.geometry.member # "object"
    \/ feature.geometry.coordinates # "list"
    \/ Len(feature.geometry.values) < 2

\* The panorama and thumbnail of the feature pass the node's validation.
OtherFieldsValid(feature, base_url) ==
    /\ valid_image_url(make_absolute_url(feature.filename, base_url))
    /\ valid_image_url(make_absolute_url(feature.thumbnail, base_url))

\* C26: every feature of a fetched FeatureCollection whose coordinates are
\* missing or malformed and whose other fields are valid is converted to a
\* node at position [0.0, 0.0]: the list of the loading request shows it.
C26_LenientCoordinates ==
    ColdList =>
        \A k \in 1..Len(response.fetched) :
            (/\ ~FetchFailed(response.fetched[k])
             /\ response.fetched[k].document.type = "FeatureCollection")
            => \A i \in 1..Len(response.fetched[k].document.features) :
                  LET feature == response.fetched[k].document.features[i]
                  IN  (/\ MissingCoordinates(feature)
                       /\ OtherFieldsValid(feature, project_links[k].base_url))
                      => \E j \in 1..Len(response.features) :
                            response.features[j]
                                = [id |-> feature.id, coordinates |-> <<0, 0>>]

\* The position of id among the keys of the index (its insertion order).
IndexPosition(id) ==
    CHOOSE i \in 1..Len(spatial_index) : spatial_index[i][1] = id

\* The place of id in the result, 0 when it is not a link.
LinkPosition(id) ==
    IF \E i \in 1..Len(call.links) : call.links[i].id = id
    THEN CHOOSE i \in 1..Len(call.links) : call.links[i].id = id
    ELSE 0

\* Candidates a and b lie at the same stored distance, a earlier in the row.
TiedInOrder(a, b) ==
    /\ a # b
    /\ StoredDistance([id |-> a]) = StoredDistance([id |-> b])
    /\ RowIndex(a) < RowIndex(b)

\* C27: candidates at equal distance from the target are considered in the
\* order of the target's distance-matrix row, which is the insertion order of
\* the index: of two tied candidates the later one is linked only after the
\* earlier one was linked or refused for its bearing against a link that
\* precedes the later one.
C27_StableTieBreak ==
    Selecting =>
        \A a \in CandidateIds : \A b \in CandidateIds :
            TiedInOrder(a, b) =>
                /\ IndexPosition(a) < IndexPosition(b)
                /\ LinkPosition(b) > 0 =>
                      \/ /\ LinkPosition(a) > 0
                         /\ LinkPosition(a) < LinkPosition(b)
                      \/ /\ LinkPosition(a) = 0
                         /\ \E i \in 1..(LinkPosition(b) - 1) :
                               CircularDifference(StoredBearing([id |-> a]),
                                                  StoredBearing(call.links[i]))
                                   * 2 * call.sectors < FullCircle

\* C27 witness: two tied candidates in different directions of which only
\* the one that comes first in the row is linked.
C27_Witness ==
    /\ Selecting
    /\ \E a \in CandidateIds : \E b \in CandidateIds :
          /\ TiedInOrder(a, b)
          /\ StoredBearing([id |-> a]) # StoredBearing([id |-> b])
          /\ LinkPosition(a) = 1
          /\ LinkPosition(b) = 0

\* The ids of a list of links, in order.
LinkIds(links) == [i \in 1..Len(links) |-> links[i].id]

\* s is a prefix of t.
IsPrefix(s, t) == Len(s) <= Len(t) /\ s = SubSeq(t, 1, Len(s))

\* C28: on a fixed index state, for a fixed target and sectors > 0, the ids
\* find_neighbors returns for a range are a prefix of the ids it returns for
\* any larger range.
C28_RangePrefix ==
    Returned =>
        \A r \in Ranges :
            /\ r >= call.max_range =>
                  IsPrefix(LinkIds(call.links), LinkIds(LinksAtRange(r)))
            /\ r <= call.max_range =>
                  IsPrefix(LinkIds(LinksAtRange(r)), LinkIds(call.links))

\* C28 witness: a larger range returns the links of the call and one more.
C28_Witness ==
    /\ Returned
    /\ call.links # <<>>
    /\ \E r \in Ranges :
          /\ r > call.max_range
          /\ Len(LinksAtRange(r)) > Len(call.links)
          /\ IsPrefix(LinkIds(call.links), LinkIds(LinksAtRange(r)))

(***************************************************************************)
(* Claims about the shared state between the steps of concurrent requests. *)
(***************************************************************************)
\* C29: wherever another request can run, the row keys of the distance
\* matrix, the row keys of the bearing matrix and the ids of the index are
\* the same set and every row has an entry for every id, so a request that
\* found its target in the index found its row in the matrices.
C29_IndexAndCacheInStep ==
    /\ Dense(distance_matrix, spatial_index)
    /\ Dense(bearing_matrix, spatial_index)
    /\ (Responded("node") /\ response.status = 200)
       => /\ DictHas(distance_matrix, response.node_id)
          /\ DictHas(bearing_matrix, response.node_id)

\* C29 witness: a second load changed a loaded index while a node request was
\* answered with links.
C29_Witness ==
    /\ loads >= 2
    /\ Len(spatial_index) > 3
    /\ Responded("node")
    /\ response.status = 200
    /\ response.links # <<>>

(***************************************************************************)
(* Claims about a fetch that fails.                                        *)
(***************************************************************************)
\* The fetch cache is left as it was.
CacheUnchanged ==
    /\ geojson_cache' = geojson_cache
    /\ cache_timestamp' = cache_timestamp

\* C30: when the GET of fetch_geojson_from_url fails, the cached documents
\* and timestamps of every url are left exactly as they were and the call
\* ends with an error instead of a document; and a fetch that returns a
\* cached document returns one less than one hour old, also after a failed
\* refresh.
C30_FailedFetch ==
    [][/\ \A h \in Started :
            (h.pc = "aexit" /\ h.pending = FailedFetch) => CacheUnchanged
       /\ \A g \in Left :
            (g.pc = "aexit" /\ g.pending = FailedFetch)
            => /\ CacheUnchanged
               /\ \/ ColdReturn /\ FetchFailed(response'.fetched[g.k])
                  \/ \E h \in Started : FetchFailed(h.fetched[g.k])
       /\ \A h \in Started :
            \A k \in 1..Len(h.fetched) :
                ~h.fetched[k].get
                => /\ ~FetchFailed(h.fetched[k])
                   /\ k > LastGet(h.fetched)
                      => now - DictGet(cache_timestamp, UrlOf(k)) < CACHE_TTL
       /\ ColdReturn =>
            \A k \in 1..Len(response'.fetched) :
                ~response'.fetched[k].get
                => /\ ~FetchFailed(response'.fetched[k])
                   /\ k > LastGet(response'.fetched)
                      => now - DictGet(cache_timestamp, UrlOf(k)) < CACHE_TTL
      ]_vars

\* C30 witness: the refresh of an entry one hour old or more has failed; the
\* entry is still cached and the handler holds the error.
C30_Witness ==
    \E h \in BagToSet(requests) :
        /\ h.pc = "aexit"
        /\ h.pending = FailedFetch
        /\ DictHas(geojson_cache, UrlOf(h.k))
        /\ now - DictGet(cache_timestamp, UrlOf(h.k)) >= CACHE_TTL

====
